---------------------------- MODULE Spec2Model ----------------------------
(***************************************************************************)
(* A model of omg/udmf.py: the UDMF grammar as the PEG parser compiled     *)
(* from UDMF_GRAMMAR runs it, the semantic actions of UDMFSemantics, the   *)
(* object model UDMFObject with its serializer, and UDMFMapEditor          *)
(* (construction, load, _parse, attribute writes, serialize, save).        *)
(*                                                                         *)
(* Text is a sequence of characters, each character a one-character        *)
(* string; NonAscii stands for one character (or byte) outside 7-bit       *)
(* ASCII.  The alphabet of the texts explored holds neither '/' nor '\',   *)
(* so the grammar's two comment patterns never match and only whitespace   *)
(* is skipped between tokens.                                              *)
(***************************************************************************)
EXTENDS Integers, Sequences, FiniteSets, TLC

VARIABLES
    wad_entries,   \* UDMFMapEditor._wad_entries: record names, in order
    wad_data,      \* UDMFMapEditor._wad_data: record bytes, in order
    name,          \* UDMFMapEditor.name
    data,          \* UDMFMapEditor.data
    index,         \* UDMFMapEditor.index
    nodes,         \* UDMFMapEditor._nodes
    meta,          \* UDMFMapEditor._meta
    output,        \* the records the latest save passed to output.insert, in call order
    last,          \* the last operation called, its arguments, outcome and pre-state
    loads,         \* number of load calls made so far
    edits,         \* number of attribute writes made so far
    rtPc,          \* position of the parse / serialize / reparse pipeline
    rtSrc,         \* source text given to the parser
    rtRes,         \* result of parsing rtSrc
    rtObj,         \* the block object taken from rtRes, possibly edited
    rtOut,         \* rtObj.serialize()
    rtRe           \* result of parsing rtOut

vars == <<wad_entries, wad_data, name, data, index, nodes, meta, output, last,
          loads, edits, rtPc, rtSrc, rtRes, rtObj, rtOut, rtRe>>

editorVars == <<wad_entries, wad_data, name, data, index, nodes, meta, output,
                last, loads, edits>>

rtVars == <<rtPc, rtSrc, rtRes, rtObj, rtOut, rtRe>>

----------------------------------------------------------------------------
(* Characters *)

NonAscii == "U+00E9"

Digits == {"0", "1", "2", "3", "4", "5", "6", "7", "8", "9"}

NonZeroDigits == Digits \ {"0"}

HexDigits == Digits \cup {"a", "b", "c", "d", "e", "f", "A", "B", "C", "D", "E", "F"}

Letters ==
    {"a", "b", "c", "d", "e", "f", "g", "h", "i", "j", "k", "l", "m",
     "n", "o", "p", "q", "r", "s", "t", "u", "v", "w", "x", "y", "z",
     "A", "B", "C", "D", "E", "F", "G", "H", "I", "J", "K", "L", "M",
     "N", "O", "P", "Q", "R", "S", "T", "U", "V", "W", "X", "Y", "Z"}

\* str.isalnum() of one character; also what the nameguard calls a name character
IsAlnum(c) == c \in Letters \cup Digits \cup {NonAscii}

\* the parser's default whitespace
Whitespace == {" ", "\n", "\t", "\r"}

\* the characters the keyword pattern excludes: { } ( ) ; " ' \n \t and space
KeywordStop == {"{", "}", "(", ")", ";", "\"", "'", "\n", "\t", " "}

DigitSeq == <<"0", "1", "2", "3", "4", "5", "6", "7", "8", "9">>

DigitVal(c) == (CHOOSE i \in 1..10 : DigitSeq[i] = c) - 1

DigitChar(d) == DigitSeq[d + 1]

----------------------------------------------------------------------------
(* Scalar values: Python int, float, bool, str and None.  A float is kept  *)
(* in decimal: 0.d1d2...dn * 10^exp, digits without leading or trailing    *)
(* zeros (none for zero), which is exact for the short literals explored.  *)

IntV(n) == [t |-> "int", n |-> n]

BoolV(b) == [t |-> "bool", b |-> b]

StrV(s) == [t |-> "str", s |-> s]

FloatV(neg, dig, exp) == [t |-> "float", neg |-> neg, dig |-> dig, exp |-> exp]

NoneV == [t |-> "none"]

RECURSIVE NatToChars(_)
NatToChars(n) ==
    IF n < 10 THEN <<DigitChar(n)>>
    ELSE NatToChars(n \div 10) \o <<DigitChar(n % 10)>>

\* str(int)
IntStr(n) == IF n < 0 THEN <<"-">> \o NatToChars(-n) ELSE NatToChars(n)

RECURSIVE Zeros(_)
Zeros(k) == IF k <= 0 THEN <<>> ELSE <<"0">> \o Zeros(k - 1)

DigChars(dig) == [i \in 1..Len(dig) |-> DigitChar(dig[i])]

\* repr(float): the shortest digits, positional when the decimal point
\* position is in -3..16 and in exponent form otherwise; the exponent form
\* has a '.' only when there is more than one digit.
FloatStr(f) ==
    LET sgn == IF f.neg THEN <<"-">> ELSE <<>>
        d   == DigChars(f.dig)
        n   == Len(d)
        e   == f.exp - 1
        ab  == IF e < 0 THEN -e ELSE e
        ex  == <<"e", IF e < 0 THEN "-" ELSE "+">>
                 \o (IF ab < 10 THEN <<"0">> ELSE <<>>) \o NatToChars(ab)
    IN  IF n = 0 THEN sgn \o <<"0", ".", "0">>
        ELSE IF f.exp <= -4 \/ f.exp > 16
        THEN sgn \o <<d[1]>>
               \o (IF n > 1 THEN <<".">> \o SubSeq(d, 2, n) ELSE <<>>) \o ex
        ELSE IF f.exp <= 0
        THEN sgn \o <<"0", ".">> \o Zeros(-f.exp) \o d
        ELSE IF f.exp >= n
        THEN sgn \o d \o Zeros(f.exp - n) \o <<".", "0">>
        ELSE sgn \o SubSeq(d, 1, f.exp) \o <<".">> \o SubSeq(d, f.exp + 1, n)

\* '{}'.format(value): what str.format inserts for a value
Format(v) ==
    CASE v.t = "str"   -> v.s
      [] v.t = "int"   -> IntStr(v.n)
      [] v.t = "float" -> FloatStr(v)
      [] v.t = "bool"  -> IF v.b THEN <<"T", "r", "u", "e">>
                          ELSE <<"F", "a", "l", "s", "e">>
      [] OTHER         -> <<"N", "o", "n", "e">>

----------------------------------------------------------------------------
(* Lexical level.  A position p ranges over 1..Len(s)+1; a matcher gives   *)
(* the position after the match, or 0 when it does not match at p.         *)

At(s, p) == IF p >= 1 /\ p <= Len(s) THEN s[p] ELSE "EOF"

\* the end of the longest run of characters of set cs starting at p
RECURSIVE RunEnd(_, _, _)
RunEnd(s, p, cs) == IF At(s, p) \in cs THEN RunEnd(s, p + 1, cs) ELSE p

\* whitespace skipped before every token and pattern
SkipWs(s, p) == RunEnd(s, p, Whitespace)

\* A literal token of the grammar ('{', '=', '0', 'true', ...).  With the
\* nameguard on, an alphanumeric token that starts with a letter does not
\* match when a name character follows it.
Token(s, p, tok) ==
    LET q == p + Len(tok)
    IN  IF q <= Len(s) + 1 /\ SubSeq(s, p, q - 1) = tok
           /\ ~ ( (\A i \in 1..Len(tok) : IsAlnum(tok[i]))
                  /\ tok[1] \in Letters
                  /\ IsAlnum(At(s, q)) /\ At(s, q) # "EOF" )
        THEN q ELSE 0

\* identifier = /[A-Za-z_]+[A-Za-z0-9_]*/
IdentEnd(s, p) ==
    IF At(s, p) \in Letters \cup {"_"}
    THEN RunEnd(s, p, Letters \cup Digits \cup {"_"}) ELSE 0

\* float = /[+-]?[0-9]+\.[0-9]*([eE][+-]?[0-9]+)?/
FloatEnd(s, p) ==
    LET p1 == IF At(s, p) \in {"+", "-"} THEN p + 1 ELSE p
        p2 == RunEnd(s, p1, Digits)
        p3 == RunEnd(s, p2 + 1, Digits)
        p4 == IF At(s, p3 + 1) \in {"+", "-"} THEN p3 + 2 ELSE p3 + 1
        p5 == RunEnd(s, p4, Digits)
    IN  IF p2 = p1 \/ At(s, p2) # "." THEN 0
        ELSE IF At(s, p3) \in {"e", "E"} /\ p5 > p4 THEN p5 ELSE p3

\* integer = '0' | /[+-]?[1-9]+[0-9]*/ | /0[0-9]+/ | /0x[0-9A-Fa-f]+/
\* an ordered choice: the first alternative that matches at p is taken
IntegerEnd(s, p) ==
    LET p1 == IF At(s, p) \in {"+", "-"} THEN p + 1 ELSE p
    IN  IF Token(s, p, <<"0">>) # 0 THEN Token(s, p, <<"0">>)
        ELSE IF At(s, p1) \in NonZeroDigits THEN RunEnd(s, p1, Digits)
        ELSE IF At(s, p) = "0" /\ At(s, p + 1) \in Digits
        THEN RunEnd(s, p + 1, Digits)
        ELSE IF At(s, p) = "0" /\ At(s, p + 1) = "x" /\ At(s, p + 2) \in HexDigits
        THEN RunEnd(s, p + 2, HexDigits)
        ELSE 0

\* quoted_string = /"([^"\\]*(\\.[^"\\]*)*)"/
RECURSIVE QuotedBody(_, _)
QuotedBody(s, p) ==
    IF p > Len(s) THEN 0
    ELSE IF s[p] = "\"" THEN p + 1
    ELSE IF s[p] = "\\"
    THEN IF p + 1 <= Len(s) /\ s[p + 1] # "\n" THEN QuotedBody(s, p + 2) ELSE 0
    ELSE QuotedBody(s, p + 1)

QuotedEnd(s, p) == IF At(s, p) = "\"" THEN QuotedBody(s, p + 1) ELSE 0

\* boolean = 'true' | 'false'
BooleanEnd(s, p) ==
    IF Token(s, p, <<"t", "r", "u", "e">>) # 0
    THEN Token(s, p, <<"t", "r", "u", "e">>)
    ELSE Token(s, p, <<"f", "a", "l", "s", "e">>)

\* keyword = /[^{}();"'\n\t ]+/
RECURSIVE KeywordRun(_, _)
KeywordRun(s, p) ==
    IF p <= Len(s) /\ s[p] \notin KeywordStop THEN KeywordRun(s, p + 1) ELSE p

KeywordEnd(s, p) == IF KeywordRun(s, p) > p THEN KeywordRun(s, p) ELSE 0

----------------------------------------------------------------------------
(* UDMFSemantics: the scalar conversions *)

RECURSIVE DigitsToNat(_)
DigitsToNat(cs) ==
    IF cs = <<>> THEN 0
    ELSE 10 * DigitsToNat(SubSeq(cs, 1, Len(cs) - 1)) + DigitVal(cs[Len(cs)])

\* int(ast) of a decimal literal with an optional sign
IntOf(ast) ==
    IF ast[1] = "-" THEN - DigitsToNat(Tail(ast))
    ELSE IF ast[1] = "+" THEN DigitsToNat(Tail(ast))
    ELSE DigitsToNat(ast)

\* UDMFSemantics.integer: int(ast); a literal int() rejects (0x...) raises
integer(ast) ==
    IF \A i \in 1..Len(ast) : ast[i] \in Digits \cup {"+", "-"}
    THEN [st |-> "ok", v |-> IntV(IntOf(ast))]
    ELSE [st |-> "raise", v |-> NoneV]

RECURSIVE StripLead(_, _)
StripLead(dig, pt) ==
    IF dig # <<>> /\ dig[1] = 0 THEN StripLead(Tail(dig), pt - 1)
    ELSE [dig |-> dig, pt |-> pt]

RECURSIVE StripTrail(_)
StripTrail(dig) ==
    IF dig # <<>> /\ dig[Len(dig)] = 0
    THEN StripTrail(SubSeq(dig, 1, Len(dig) - 1)) ELSE dig

\* UDMFSemantics.float: float(ast)
float(ast) ==
    LET neg  == ast[1] = "-"
        b    == IF ast[1] \in {"+", "-"} THEN 2 ELSE 1
        dot  == RunEnd(ast, b, Digits)
        fe   == RunEnd(ast, dot + 1, Digits)
        ip   == SubSeq(ast, b, dot - 1)
        fp   == SubSeq(ast, dot + 1, fe - 1)
        ex   == IF fe <= Len(ast) THEN IntOf(SubSeq(ast, fe + 1, Len(ast))) ELSE 0
        all  == [i \in 1..(Len(ip) + Len(fp)) |-> DigitVal((ip \o fp)[i])]
        lead == StripLead(all, Len(ip) + ex)
        dig  == StripTrail(lead.dig)
    IN  IF dig = <<>> THEN FloatV(neg, <<>>, 0) ELSE FloatV(neg, dig, lead.pt)

\* UDMFSemantics.boolean: bool(ast), the truth value of the matched string
boolean(ast) == BoolV(Len(ast) > 0)

\* UDMFSemantics.quoted_string: ast[1:-1]
quoted_string(ast) == StrV(SubSeq(ast, 2, Len(ast) - 1))

----------------------------------------------------------------------------
(* Python dict: insertion-ordered; writing an existing key keeps its place *)

DictHas(d, k) == \E i \in 1..Len(d) : d[i].key = k

DictGet(d, k) == d[CHOOSE i \in 1..Len(d) : d[i].key = k].v

DictSet(d, k, v) ==
    IF DictHas(d, k)
    THEN [i \in 1..Len(d) |-> IF d[i].key = k THEN [key |-> k, v |-> v] ELSE d[i]]
    ELSE Append(d, [key |-> k, v |-> v])

\* d.update(e)
RECURSIVE DictUpdate(_, _)
DictUpdate(d, e) ==
    IF e = <<>> THEN d
    ELSE DictUpdate(DictSet(d, e[1].key, e[1].v), Tail(e))

----------------------------------------------------------------------------
(* UDMFObject and its subclasses.  An object is its class, its name field, *)
(* the list _attributes and the other instance fields (vals).  The         *)
(* attribute keys explored are plain identifiers and "name"; identifiers   *)
(* that collide with _attributes or with a method are not among them.      *)

NameKey == <<"n", "a", "m", "e">>

\* setattr(obj, key, value)
SetAttr(obj, key, value) ==
    IF key = NameKey THEN [obj EXCEPT !.name = value]
    ELSE [obj EXCEPT !.vals = DictSet(@, key, value)]

\* getattr(obj, key)
GetAttr(obj, key) == IF key = NameKey THEN obj.name ELSE DictGet(obj.vals, key)

RECURSIVE InitAttrs(_, _)
InitAttrs(obj, items) ==
    IF items = <<>> THEN obj
    ELSE InitAttrs(SetAttr([obj EXCEPT !.attributes = Append(@, items[1].key)],
                           items[1].key, items[1].v),
                   Tail(items))

\* UDMFObject.__init__(attributes, name), for an instance of class cls
UDMFObject(cls, attributes, nm) ==
    InitAttrs([kind |-> "obj", cls |-> cls, name |-> nm,
               attributes |-> <<>>, vals |-> <<>>],
              attributes)

\* UDMFSemantics.UDMF_BLOCK_TYPES.get(name, UDMFObject)
UDMF_BLOCK_TYPES(nm) ==
    CASE nm = <<"t", "h", "i", "n", "g">>                -> "Thing"
      [] nm = <<"v", "e", "r", "t", "e", "x">>           -> "Vertex"
      [] nm = <<"l", "i", "n", "e", "d", "e", "f">>      -> "LineDef"
      [] nm = <<"s", "i", "d", "e", "d", "e", "f">>      -> "SideDef"
      [] nm = <<"s", "e", "c", "t", "o", "r">>           -> "Sector"
      [] OTHER                                           -> "UDMFObject"

\* UDMFSemantics.block
block(nm, assignments) ==
    UDMFObject(UDMF_BLOCK_TYPES(nm), DictUpdate(<<>>, assignments), StrV(nm))

\* UDMFSemantics.assignment_expr: the one-entry dict {identifier: value}
assignment_expr(identifier, value) ==
    [kind |-> "dict", items |-> <<[key |-> identifier, v |-> value]>>]

\* UDMFObject.serialize_assignment
serialize_assignment(key, value) ==
    LET text == IF value.t = "str" THEN <<"\"">> \o value.s \o <<"\"">>
                ELSE IF value.t = "bool"
                THEN IF value.b THEN <<"t", "r", "u", "e">>
                     ELSE <<"f", "a", "l", "s", "e">>
                ELSE Format(value)
    IN  key \o <<" ", "=", " ">> \o text \o <<";">>

\* sep.join(parts)
RECURSIVE Join(_, _)
Join(sep, parts) ==
    IF parts = <<>> THEN <<>>
    ELSE IF Len(parts) = 1 THEN parts[1]
    ELSE parts[1] \o sep \o Join(sep, Tail(parts))

\* UDMFObject.serialize
ObjSerialize(obj) ==
    Format(obj.name) \o <<"\n", "{", "\n">>
      \o Join(<<"\n">>, [i \in 1..Len(obj.attributes) |->
               serialize_assignment(obj.attributes[i],
                                    GetAttr(obj, obj.attributes[i]))])
      \o <<"\n", "}", "\n">>

----------------------------------------------------------------------------
(* The grammar rules, as the PEG parser runs them: ordered choice, greedy  *)
(* closures, no retry of a rule that succeeded.  A rule gives st = "ok"    *)
(* with its value and the position after it, "fail", or "raise" when a     *)
(* semantic action raised (err, tok).                                      *)

Ok(v, pos) == [st |-> "ok", v |-> v, pos |-> pos, err |-> "", tok |-> <<>>]

Fail == [st |-> "fail", v |-> NoneV, pos |-> 0, err |-> "", tok |-> <<>>]

\* the failure of a rule after its cut
CutFail == [st |-> "fail", v |-> NoneV, pos |-> 0, err |-> "cut", tok |-> <<>>]

Raise(err, tok) == [st |-> "raise", v |-> NoneV, pos |-> 0, err |-> err, tok |-> tok]

\* the token tok after whitespace at p, when the rule has not failed so far
Expect(s, p, tok) == IF p = 0 THEN 0 ELSE Token(s, SkipWs(s, p), tok)

\* the integer alternative of value, with UDMFSemantics.integer applied
IntegerValue(r, ast, pos) ==
    IF r.st = "ok" THEN Ok(r.v, pos) ELSE Raise("ValueError", ast)

\* ValueChoice with the keyword alternative giving the token as a string
\* instead of raising
ValueChoiceKeywordAccepted(s, q, fe, ie, qe, be, ke) ==
    IF fe # 0 THEN Ok(float(SubSeq(s, q, fe - 1)), fe)
    ELSE IF ie # 0
    THEN IntegerValue(integer(SubSeq(s, q, ie - 1)), SubSeq(s, q, ie - 1), ie)
    ELSE IF qe # 0 THEN Ok(quoted_string(SubSeq(s, q, qe - 1)), qe)
    ELSE IF be # 0 THEN Ok(boolean(SubSeq(s, q, be - 1)), be)
    ELSE IF ke # 0 THEN Ok(StrV(SubSeq(s, q, ke - 1)), ke)
    ELSE Fail

\* value = float | integer | quoted_string | boolean | keyword ;
\* given where each alternative's pattern ends at q (0: no match); the
\* semantic action of the alternative taken is applied to the matched text,
\* and UDMFSemantics.keyword raises for whatever the keyword pattern matched
ValueChoice(s, q, fe, ie, qe, be, ke) ==
    IF fe # 0 THEN Ok(float(SubSeq(s, q, fe - 1)), fe)
    ELSE IF ie # 0
    THEN IntegerValue(integer(SubSeq(s, q, ie - 1)), SubSeq(s, q, ie - 1), ie)
    ELSE IF qe # 0 THEN Ok(quoted_string(SubSeq(s, q, qe - 1)), qe)
    ELSE IF be # 0 THEN Ok(boolean(SubSeq(s, q, be - 1)), be)
    ELSE IF ke # 0 THEN Raise("UnsupportedValue", SubSeq(s, q, ke - 1))
    ELSE Fail

ValueAt(s, q) ==
    ValueChoice(s, q, FloatEnd(s, q), IntegerEnd(s, q), QuotedEnd(s, q),
                BooleanEnd(s, q), KeywordEnd(s, q))

value(s, p) == IF p = 0 THEN Fail ELSE ValueAt(s, SkipWs(s, p))

\* assignment_expr, from its value on: val is the outcome of value, the
\* identifier is s[q..ie-1]
AssignmentEnd(s, q, ie, val) ==
    IF val.st # "ok" THEN val
    ELSE IF Expect(s, val.pos, <<";">>) = 0 THEN Fail
    ELSE Ok([key |-> SubSeq(s, q, ie - 1), v |-> val.v], Expect(s, val.pos, <<";">>))

\* assignment_expr = identifier '=' value ';' ;
AssignmentExpr(s, p) ==
    AssignmentEnd(s, SkipWs(s, p), IdentEnd(s, SkipWs(s, p)),
                  value(s, Expect(s, IdentEnd(s, SkipWs(s, p)), <<"=">>)))

\* a closure's result: the element v followed by the rest of the closure
Cons(v, rest) ==
    IF rest.st = "raise" THEN rest ELSE Ok(<<v>> \o rest.v, rest.pos)

\* expr_list = { assignment_expr } ;
RECURSIVE ExprList(_, _)
ExprListStep(s, p, a) ==
    IF a.st = "raise" THEN a
    ELSE IF a.st = "fail" THEN Ok(<<>>, p)
    ELSE Cons(a.v, ExprList(s, a.pos))

ExprList(s, p) == ExprListStep(s, p, AssignmentExpr(s, p))

\* block, from its closing brace on: el is the outcome of expr_list
BlockEnd(s, q, ie, el) ==
    IF el.st = "raise" THEN el
    ELSE IF Expect(s, el.pos, <<"}">>) = 0 THEN CutFail
    ELSE Ok(block(SubSeq(s, q, ie - 1), el.v), Expect(s, el.pos, <<"}">>))

\* block, from the cut on: ob is the position after '{'
BlockBody(s, q, ie, ob) ==
    IF ob = 0 THEN Fail ELSE BlockEnd(s, q, ie, ExprList(s, ob))

\* block = identifier '{' ~ expr_list '}' ;
Block(s, p) ==
    BlockBody(s, SkipWs(s, p), IdentEnd(s, SkipWs(s, p)),
              Expect(s, IdentEnd(s, SkipWs(s, p)), <<"{">>))

\* the second alternative of global_expr
GlobalAssignment(a) ==
    IF a.st = "ok" THEN Ok(assignment_expr(a.v.key, a.v.v), a.pos) ELSE a

\* global_expr, given the outcome b of its first alternative; a failure
\* after the cut fails the choice without trying the second alternative
GlobalChoice(s, p, b) ==
    IF b.st # "fail" THEN b
    ELSE IF b.err = "cut" THEN Fail
    ELSE GlobalAssignment(AssignmentExpr(s, p))

\* global_expr = block | assignment_expr ;
GlobalExpr(s, p) == GlobalChoice(s, p, Block(s, p))

\* global_expr_list = { global_expr } ;
RECURSIVE GlobalExprList(_, _)
GlobalExprListStep(s, p, g) ==
    IF g.st = "raise" THEN g
    ELSE IF g.st = "fail" THEN Ok(<<>>, p)
    ELSE Cons(g.v, GlobalExprList(s, g.pos))

GlobalExprList(s, p) == GlobalExprListStep(s, p, GlobalExpr(s, p))

\* translation_unit = global_expr_list $ ; given the outcome l of the list
TranslationUnit(s, l) ==
    IF l.st = "raise" THEN [st |-> l.err, ast |-> <<>>, tok |-> l.tok]
    ELSE IF SkipWs(s, l.pos) # Len(s) + 1
    THEN [st |-> "SyntaxError", ast |-> <<>>, tok |-> <<>>]
    ELSE [st |-> "ok", ast |-> l.v, tok |-> <<>>]

\* UDMF_PARSER.parse(text, semantics=UDMFSemantics()): the list of nodes, or
\* the error raised
Parse(s) == TranslationUnit(s, GlobalExprList(s, 1))

----------------------------------------------------------------------------
(* Codecs *)

\* bytes.decode('ascii') and str.encode('ascii'): the same 7-bit code units,
\* or an error when one is outside ASCII
IsAscii(s) == \A i \in 1..Len(s) : s[i] # NonAscii

decode(bytes) ==
    IF IsAscii(bytes) THEN [st |-> "ok", s |-> bytes]
    ELSE [st |-> "UnicodeDecodeError", s |-> <<>>]

encode(text) ==
    IF IsAscii(text) THEN [st |-> "ok", s |-> text]
    ELSE [st |-> "UnicodeEncodeError", s |-> <<>>]

----------------------------------------------------------------------------
(* Bounds and the inputs explored *)

MaxRecords == 4

MaxLoads == 2

MaxEdits == 1

MaxAttrs == 2

LumpNames == {"MAP01", "MAP02", "TEXTMAP", "ENDMAP"}

LoadNames == {"MAP01", "MAP02"}

\* ns="d";thing{x=1;}
TextA == <<"n", "s", "=", "\"", "d", "\"", ";",
           "t", "h", "i", "n", "g", "{", "x", "=", "1", ";", "}">>

\* sector{h=2.5;}
TextB == <<"s", "e", "c", "t", "o", "r", "{", "h", "=", "2", ".", "5", ";", "}">>

\* thing{x=abc;}
TextKeyword == <<"t", "h", "i", "n", "g", "{", "x", "=", "a", "b", "c", ";", "}">>

TextmapTexts == {TextA, TextB, TextKeyword}

\* the bytes of a record that is not a TEXTMAP: distinct for each index
LumpBytes(i) == <<"#", DigitChar(i)>>

\* the records a container may hold: a name, and for a TEXTMAP its text
Lumps ==
    {[name |-> nm, text |-> <<>>] : nm \in LumpNames \ {"TEXTMAP"}}
      \cup {[name |-> "TEXTMAP", text |-> tx] : tx \in TextmapTexts}

\* the values a caller writes to an attribute
EditValues == {IntV(7), StrV(<<NonAscii>>)}

----------------------------------------------------------------------------
(* Source texts for the parser on its own: a block or a run of global      *)
(* assignments, each assignment a key and a value written as one of the    *)
(* lexemes below.                                                          *)

Thing == <<"t", "h", "i", "n", "g">>

Custom == <<"c", "u", "s", "t", "o", "m">>

\* differs from 'thing' by case only
ThingCap == <<"T", "h", "i", "n", "g">>

BlockNames == {Thing, Custom, ThingCap}

Keys == {<<"x">>, NameKey}

LexInt == <<"1">>

LexFloat == <<"2", ".", "5">>

\* the float 1e-05
LexSmall == <<"0", ".", "0", "0", "0", "0", "1">>

LexTrue == <<"t", "r", "u", "e">>

LexFalse == <<"f", "a", "l", "s", "e">>

LexString == <<"\"", "d", "\"">>

LexKeyword == <<"a", "b", "c">>

\* a bare token that starts with an integer literal
LexDigitWord == <<"1", "a">>

Lexemes == {LexInt, LexFloat, LexSmall, LexTrue, LexFalse, LexString,
            LexKeyword, LexDigitWord}

\* the values a caller writes to an attribute of a parsed block
RtEditValues == {BoolV(FALSE), StrV(<<"a", "b">>)}

SourceAttrs == [key : Keys, lex : Lexemes]

RECURSIVE AttrsText(_)
AttrsText(attrs) ==
    IF attrs = <<>> THEN <<>>
    ELSE attrs[1].key \o <<"=">> \o attrs[1].lex \o <<";">> \o AttrsText(Tail(attrs))

BlockSource(nm, attrs) ==
    [scope |-> "block", name |-> nm, attrs |-> attrs,
     text |-> nm \o <<"{">> \o AttrsText(attrs) \o <<"}">>]

GlobalSource(attrs) ==
    [scope |-> "global", name |-> <<>>, attrs |-> attrs, text |-> AttrsText(attrs)]

NoSource == [scope |-> "none", name |-> <<>>, attrs |-> <<>>, text |-> <<>>]

NoParse == [st |-> "none", ast |-> <<>>, tok |-> <<>>]

NoObj ==
    [kind |-> "none", cls |-> "", name |-> NoneV, attributes |-> <<>>, vals |-> <<>>]

----------------------------------------------------------------------------
(* UDMFMapEditor.  Python's None is NoneV; indexes are 0-based as in the   *)
(* code, so record i is wad_entries[i + 1].                                *)

N == Len(wad_entries)

Entry(i) == wad_entries[i + 1]

\* 'not x' for x None or a str
Falsy(x) == x.t = "none" \/ (x.t = "str" /\ x.s = <<>>) \/ (x.t = "name" /\ x.s = "")

NameV(s) == [t |-> "name", s |-> s]

\* load, the outer loop from `index` on: the index at which the loop takes a
\* header, or -1 when it ends (by IndexError or exhaustion) without one
RECURSIVE FindHeader(_, _)
FindHeader(nm, i) ==
    IF i + 1 >= N THEN -1
    ELSE IF Entry(i + 1) # "TEXTMAP" THEN FindHeader(nm, i + 1)
    ELSE IF Entry(i) # nm THEN FindHeader(nm, i + 1)
    ELSE i

\* load, the inner loop over _wad_entries[index:] from record j on, with d the
\* value of self.data so far
RECURSIVE ScanMap(_, _)
ScanMap(j, d) ==
    IF j >= N THEN [st |-> "ok", data |-> d]
    ELSE IF Entry(j) = "ENDMAP" THEN [st |-> "ok", data |-> d]
    ELSE IF Entry(j) = "TEXTMAP"
    THEN LET dec == decode(wad_data[j + 1])
         IN  IF dec.st = "ok" THEN ScanMap(j + 1, StrV(dec.s))
             ELSE [st |-> dec.st, data |-> d]
    ELSE ScanMap(j + 1, d)

\* _parse, the loop over the nodes of the tree
RECURSIVE AddNodes(_, _, _)
AddNodes(ast, ns, mt) ==
    IF ast = <<>> THEN [nodes |-> ns, meta |-> mt]
    ELSE IF ast[1].kind = "obj" THEN AddNodes(Tail(ast), Append(ns, ast[1]), mt)
    ELSE AddNodes(Tail(ast), ns, DictUpdate(mt, ast[1].items))

Pre == [name |-> name, index |-> index, data |-> data, nodes |-> nodes, meta |-> meta]

Called(op, arg, outcome) == [op |-> op, arg |-> arg, outcome |-> outcome, pre |-> Pre]

\* UDMFMapEditor.__init__: the snapshot of a container's records
Init ==
    /\ \E recs \in UNION {[1..n -> Lumps] : n \in 1..MaxRecords} :
          /\ wad_entries = [i \in 1..Len(recs) |-> recs[i].name]
          /\ wad_data = [i \in 1..Len(recs) |->
                           IF recs[i].name = "TEXTMAP" THEN recs[i].text
                           ELSE LumpBytes(i - 1)]
    /\ name = NoneV
    /\ data = NoneV
    /\ index = NoneV
    /\ nodes = <<>>
    /\ meta = <<>>
    /\ output = <<>>
    /\ last = [op |-> "init", arg |-> "", outcome |-> "ok", pre |-> <<>>]
    /\ loads = 0
    /\ edits = 0
    /\ rtPc = [at |-> "off", edited |-> FALSE]
    /\ rtSrc = NoSource
    /\ rtRes = NoParse
    /\ rtObj = NoObj
    /\ rtOut = <<>>
    /\ rtRe = NoParse

\* load, from _parse on: tree is the parser's outcome
LoadParsed(nm, tree) ==
    IF tree.st # "ok"
    THEN /\ last' = Called("load", nm, tree.st)
         /\ UNCHANGED <<nodes, meta>>
    ELSE /\ last' = Called("load", nm, "ok")
         /\ nodes' = AddNodes(tree.ast, nodes, meta).nodes
         /\ meta' = AddNodes(tree.ast, nodes, meta).meta

\* load, from the end of its loops on: nm1, ix1 and scan.data are the name,
\* index and data fields then, scan.st an error raised in the inner loop
LoadScanned(nm, nm1, ix1, scan) ==
    /\ name' = nm1
    /\ index' = ix1
    /\ data' = scan.data
    /\ IF scan.st # "ok"
       THEN /\ last' = Called("load", nm, scan.st)
            /\ UNCHANGED <<nodes, meta>>
       ELSE IF Falsy(nm1) \/ Falsy(scan.data)
       THEN /\ last' = Called("load", nm, "NotFound")
            /\ UNCHANGED <<nodes, meta>>
       ELSE LoadParsed(nm, Parse(scan.data.s))

\* load, given the header index h the outer loop stops at (-1: none)
LoadFrom(nm, h) ==
    IF h < 0 THEN LoadScanned(nm, name, index, [st |-> "ok", data |-> data])
    ELSE LoadScanned(nm, NameV(Entry(h)), IntV(h), ScanMap(h, data))

\* UDMFMapEditor.load(nm) with UDMFMapEditor._parse
Load(nm) ==
    /\ loads < MaxLoads
    /\ loads' = loads + 1
    /\ output' = <<>>
    /\ LoadFrom(nm, FindHeader(nm, 0))
    /\ UNCHANGED <<wad_entries, wad_data, edits, rtVars>>

\* an attribute write by the caller: node.key = v on a block of the document
Edit(i, key, v) ==
    /\ edits < MaxEdits
    /\ edits' = edits + 1
    /\ nodes' = [nodes EXCEPT ![i] = SetAttr(@, key, v)]
    /\ output' = <<>>
    /\ last' = Called("edit", "", "ok")
    /\ UNCHANGED <<wad_entries, wad_data, name, data, index, meta, loads, rtVars>>

\* UDMFMapEditor.serialize
serialize ==
    LET metaText == Join(<<"\n">>, [i \in 1..Len(meta) |->
                         serialize_assignment(meta[i].key, meta[i].v)])
        nodeText == Join(<<"\n">>, [i \in 1..Len(nodes) |-> ObjSerialize(nodes[i])])
    IN  Join(<<"\n">>, <<metaText, nodeText>>)

\* save, the loop from record i on, with out the records passed to
\* output.insert so far; a raised error ends it before output.save()
RECURSIVE SaveLoop(_, _)
SaveReplace(i, out, enc) ==
    IF enc.st # "ok" THEN [st |-> enc.st, out |-> out]
    ELSE SaveLoop(i + 1, Append(out, [name |-> Entry(i), data |-> enc.s]))

\* SaveLoop replacing the record at the header index itself
SaveLoopAtHeader(i, out) ==
    IF i >= N THEN [st |-> "ok", out |-> out]
    ELSE IF index.t = "none" THEN [st |-> "TypeError", out |-> out]
    ELSE IF i = index.n THEN SaveReplace(i, out, encode(serialize))
    ELSE SaveLoop(i + 1, Append(out, [name |-> Entry(i), data |-> wad_data[i + 1]]))

SaveLoop(i, out) ==
    IF i >= N THEN [st |-> "ok", out |-> out]
    ELSE IF index.t = "none" THEN [st |-> "TypeError", out |-> out]
    ELSE IF i = index.n + 1 THEN SaveReplace(i, out, encode(serialize))
    ELSE SaveLoop(i + 1, Append(out, [name |-> Entry(i), data |-> wad_data[i + 1]]))

\* save, given the outcome r of its loop
SaveDone(r) ==
    /\ output' = r.out
    /\ last' = Called("save", "", r.st)

\* UDMFMapEditor.save(filename)
Save ==
    /\ SaveDone(SaveLoop(0, <<>>))
    /\ UNCHANGED <<wad_entries, wad_data, name, data, index, nodes, meta,
                   loads, edits, rtVars>>

Next ==
    \/ \E nm \in LoadNames : Load(nm)
    \/ \E i \in 1..Len(nodes) : \E k \in 1..Len(nodes[i].attributes) :
         \E v \in EditValues : Edit(i, nodes[i].attributes[k], v)
    \/ Save

Spec == Init /\ [][Next]_vars

----------------------------------------------------------------------------
(* The parser and the serializer on their own: a source text is parsed,    *)
(* the block it gives may get one attribute written, is serialized, and    *)
(* the serialized text is parsed again.                                    *)

InitRT ==
    /\ wad_entries = <<>>
    /\ wad_data = <<>>
    /\ name = NoneV
    /\ data = NoneV
    /\ index = NoneV
    /\ nodes = <<>>
    /\ meta = <<>>
    /\ output = <<>>
    /\ last = [op |-> "init", arg |-> "", outcome |-> "ok", pre |-> <<>>]
    /\ loads = 0
    /\ edits = 0
    /\ rtPc = [at |-> "init", edited |-> FALSE]
    /\ rtSrc = NoSource
    /\ rtRes = NoParse
    /\ rtObj = NoObj
    /\ rtOut = <<>>
    /\ rtRe = NoParse

\* the first node of a parse, when it is a block object
FirstObj(tree) ==
    IF tree.st = "ok" /\ tree.ast # <<>> /\ tree.ast[1].kind = "obj"
    THEN tree.ast[1] ELSE NoObj

\* UDMF_PARSER.parse(src.text, semantics=UDMFSemantics())
RtParsed(src, tree) ==
    /\ rtSrc' = src
    /\ rtRes' = tree
    /\ rtObj' = FirstObj(tree)
    /\ rtPc' = [at |-> "parsed", edited |-> FALSE]
    /\ UNCHANGED <<rtOut, rtRe, editorVars>>

RtParse(src) ==
    /\ rtPc.at = "init"
    /\ RtParsed(src, Parse(src.text))

\* an attribute write by the caller: rtObj.key = v
RtEdit(key, v) ==
    /\ rtPc.at = "parsed"
    /\ ~ rtPc.edited
    /\ rtObj.kind = "obj"
    /\ rtObj' = SetAttr(rtObj, key, v)
    /\ rtPc' = [at |-> "parsed", edited |-> TRUE]
    /\ UNCHANGED <<rtSrc, rtRes, rtOut, rtRe, editorVars>>

\* rtObj.serialize()
RtSerialize ==
    /\ rtPc.at = "parsed"
    /\ rtObj.kind = "obj"
    /\ rtOut' = ObjSerialize(rtObj)
    /\ rtPc' = [rtPc EXCEPT !.at = "serialized"]
    /\ UNCHANGED <<rtSrc, rtRes, rtObj, rtRe, editorVars>>

\* UDMF_PARSER.parse(rtOut, semantics=UDMFSemantics())
RtReparse ==
    /\ rtPc.at = "serialized"
    /\ rtRe' = Parse(rtOut)
    /\ rtPc' = [rtPc EXCEPT !.at = "reparsed"]
    /\ UNCHANGED <<rtSrc, rtRes, rtObj, rtOut, editorVars>>

AttrSeqs == UNION {[1..n -> SourceAttrs] : n \in 0..MaxAttrs}

Sources ==
    {BlockSource(nm, attrs) : nm \in BlockNames, attrs \in AttrSeqs}
      \cup {GlobalSource(attrs) : attrs \in AttrSeqs \ {<<>>}}

NextRT ==
    \/ \E src \in Sources : RtParse(src)
    \/ \E k \in 1..Len(rtObj.attributes) : \E v \in RtEditValues :
         RtEdit(rtObj.attributes[k], v)
    \/ RtSerialize
    \/ RtReparse

SpecRT == InitRT /\ [][NextRT]_vars

----------------------------------------------------------------------------
(* Properties of the editor (checked under Spec) *)

\* the header indexes of the maps named nm: record i is named nm and record
\* i + 1 is named TEXTMAP
Matches(nm) == {i \in 0..(N - 2) : Entry(i) = nm /\ Entry(i + 1) = "TEXTMAP"}

FirstMatch(nm) == CHOOSE i \in Matches(nm) : \A j \in Matches(nm) : i <= j

\* the decoded bytes of record i
TextOf(i) == StrV(decode(wad_data[i + 1]).s)

\* every record inserted so far has its original name and, unless it is
\* the record at header index + 1, its original bytes
FrameKept ==
    \A i \in 1..Len(output) :
       /\ output[i].name = wad_entries[i]
       /\ (index.t = "int" /\ i # index.n + 2) => output[i].data = wad_data[i]

\* C1 as stated: after a map was loaded successfully, save inserts exactly
\* one record per snapshot record, in the original order and with the
\* original names, every record other than the one at header index + 1 with
\* the bytes read at construction and that one with the serialized
\* document, whatever attribute writes the caller made.
C1_SaveInsertsEveryRecord ==
    (last.op = "save" /\ nodes # <<>>) =>
       /\ Len(output) = N
       /\ FrameKept
       /\ output[index.n + 2].data = serialize

\* C1 amended: save inserts records in the original order, with the
\* original names and, except at header index + 1, the original bytes; when
\* the serialized document encodes as ASCII it inserts exactly one record
\* per snapshot record, the one at header index + 1 holding the serialized
\* document; when it does not (the caller wrote a non-ASCII string), save
\* raises at that record after inserting only the records before it.
C1_SaveFrame ==
    last.op = "save" =>
       /\ FrameKept
       /\ last.outcome = "ok" =>
             /\ index.t = "int"
             /\ Len(output) = N
             /\ output[index.n + 2].data = serialize
       /\ last.outcome # "ok" =>
             IF index.t = "none" THEN output = <<>>
             ELSE Len(output) = index.n + 1 /\ ~ IsAscii(serialize)

C1_Witness ==
    /\ last.op = "save"
    /\ last.outcome = "ok"
    /\ edits > 0
    /\ N >= 3
    /\ output[index.n + 2].data # wad_data[index.n + 2]

\* C2: when several headers named nm are each followed by a TEXTMAP record,
\* load(nm) records the smallest such index and loads that map, not a later
\* one of the same name: the text it extracts is the TEXTMAP record that
\* follows the selected header.
C2_FirstMatch ==
    (last.op = "load" /\ Cardinality(Matches(last.arg)) >= 2) =>
       /\ index = IntV(FirstMatch(last.arg))
       /\ last.outcome \notin {"NotFound", "UnicodeDecodeError"} =>
             data = TextOf(FirstMatch(last.arg) + 1)

\* C3: load(nm) fails with NotFound whenever no record named nm is followed
\* by a record named TEXTMAP, on every call, also after an earlier load of
\* another name succeeded.
C3_NotFound ==
    (last.op = "load" /\ Matches(last.arg) = {}) => last.outcome = "NotFound"

\* C4: after a successful load the block sequence is exactly the blocks of
\* the loaded text in parse order and the global metadata exactly its
\* top-level assignments, however many loads were made before.
C4_DocumentPerLoad ==
    (last.op = "load" /\ last.outcome = "ok") =>
       /\ nodes = AddNodes(Parse(data.s).ast, <<>>, <<>>).nodes
       /\ meta = AddNodes(Parse(data.s).ast, <<>>, <<>>).meta

\* C5: a load that fails leaves the selected name, the header index, the
\* extracted text, the block sequence and the global metadata as they were
\* before the call.
C5_LoadAllOrNothing ==
    (last.op = "load" /\ last.outcome # "ok") => Pre = last.pre

\* C10: after a successful load the text parsed into the document is the
\* decoded record at header index + 1, the record save replaces, whether or
\* not an ENDMAP record follows and however many TEXTMAP records follow.
C10_TextIsRecordAfterHeader ==
    (last.op = "load" /\ last.outcome = "ok") =>
       /\ index.t = "int"
       /\ data = TextOf(index.n + 1)

----------------------------------------------------------------------------
(* Properties of the parser and the serializer (checked under SpecRT) *)

\* the lexemes that are integer, float, boolean or quoted-string literals
LiteralLexemes == {LexInt, LexFloat, LexSmall, LexTrue, LexFalse, LexString}

\* a source assignment whose value is a bare token that is no literal
BareTokens(src) == {i \in 1..Len(src.attrs) : src.attrs[i].lex \notin LiteralLexemes}

FirstBareToken(src) ==
    src.attrs[CHOOSE i \in BareTokens(src) : \A j \in BareTokens(src) : i <= j].lex

\* a float, integer, quoted-string or boolean literal starts the token
BeginsWithLiteral(lex) ==
    \/ FloatEnd(lex, 1) # 0
    \/ IntegerEnd(lex, 1) # 0
    \/ QuotedEnd(lex, 1) # 0
    \/ BooleanEnd(lex, 1) # 0

\* C6: for a block whose attributes are integers, floats, booleans or
\* strings needing no escape, parsing its serialize() output gives one
\* block with the same type tag, the same attribute names in the same
\* order and the same values.
C6_RoundTrip ==
    rtPc.at = "reparsed" =>
       /\ rtRe.st = "ok"
       /\ Len(rtRe.ast) = 1
       /\ rtRe.ast[1].kind = "obj"
       /\ rtRe.ast[1].cls = rtObj.cls
       /\ rtRe.ast[1].attributes = rtObj.attributes
       /\ \A k \in 1..Len(rtObj.attributes) :
             GetAttr(rtRe.ast[1], rtObj.attributes[k]) = GetAttr(rtObj, rtObj.attributes[k])

\* C7 as stated: an assignment, global or in a block, whose value is a bare
\* token that is no integer, float, boolean or quoted-string literal makes
\* the parse fail with UnsupportedValue naming that token, and no document
\* is built.
C7_KeywordRejection ==
    (rtPc.at # "init" /\ BareTokens(rtSrc) # {}) =>
       /\ rtRes.st = "UnsupportedValue"
       /\ rtRes.tok = FirstBareToken(rtSrc)
       /\ rtRes.ast = <<>>

\* C7 amended: the parse fails and no document is built; the error is
\* UnsupportedValue naming the token when no float, integer, quoted-string
\* or boolean literal starts the first such token, and a syntax error when
\* one does (1a: the integer alternative takes the 1 and the ';' is then
\* missing).
C7_KeywordRejectionAmended ==
    (rtPc.at # "init" /\ BareTokens(rtSrc) # {}) =>
       /\ rtRes.ast = <<>>
       /\ rtObj = NoObj
       /\ IF BeginsWithLiteral(FirstBareToken(rtSrc))
          THEN rtRes.st = "SyntaxError"
          ELSE rtRes.st = "UnsupportedValue" /\ rtRes.tok = FirstBareToken(rtSrc)

C7_Witness ==
    /\ rtPc.at = "parsed"
    /\ rtSrc.scope = "block"
    /\ Len(rtSrc.attrs) = 2
    /\ rtSrc.attrs[1].lex = LexInt
    /\ rtSrc.attrs[2].lex = LexKeyword
    /\ rtRes.st = "UnsupportedValue"
    /\ rtRes.tok = LexKeyword

\* the five typed block identifiers
TypedNames ==
    {<<"t", "h", "i", "n", "g">>, <<"v", "e", "r", "t", "e", "x">>,
     <<"l", "i", "n", "e", "d", "e", "f">>, <<"s", "i", "d", "e", "d", "e", "f">>,
     <<"s", "e", "c", "t", "o", "r">>}

\* the keys of the source assignments, each at its first occurrence
RECURSIVE FirstKeys(_, _)
FirstKeys(attrs, seen) ==
    IF attrs = <<>> THEN seen
    ELSE FirstKeys(Tail(attrs),
                   IF \E i \in 1..Len(seen) : seen[i] = attrs[1].key THEN seen
                   ELSE Append(seen, attrs[1].key))

\* C8: a block whose identifier is none of thing, vertex, linedef, sidedef,
\* sector is not rejected: it becomes a generic block whose name is that
\* identifier and whose attributes are those of the source block, whatever
\* their names, and parsing its serialization gives the same generic block.
C8_UnknownBlockPreserved ==
    (/\ rtPc.at # "init"
     /\ ~ rtPc.edited
     /\ rtSrc.scope = "block"
     /\ rtSrc.name \notin TypedNames
     /\ BareTokens(rtSrc) = {}) =>
       /\ rtRes.st = "ok"
       /\ rtObj.cls = "UDMFObject"
       /\ rtObj.name = StrV(rtSrc.name)
       /\ rtObj.attributes = FirstKeys(rtSrc.attrs, <<>>)
       /\ rtPc.at = "reparsed" => (rtRe.st = "ok" /\ rtRe.ast = <<rtObj>>)

\* C9: the value of an assignment written true is the boolean true, that of
\* one written false is the boolean false, and each serializes back as the
\* same word.
C9_BooleanLiteral ==
    (/\ rtPc.at # "init"
     /\ rtSrc.scope = "global"
     /\ Len(rtSrc.attrs) = 1
     /\ rtSrc.attrs[1].lex \in {LexTrue, LexFalse}) =>
       /\ rtRes.st = "ok"
       /\ rtRes.ast[1].items[1].v = BoolV(rtSrc.attrs[1].lex = LexTrue)
       /\ serialize_assignment(rtSrc.attrs[1].key, rtRes.ast[1].items[1].v)
            = rtSrc.attrs[1].key \o <<" ", "=", " ">> \o rtSrc.attrs[1].lex \o <<";">>

============================================================================
